---- MODULE Spec2Model ----
(***************************************************************************)
(* fixMyRefs 2025.7 (src/fixMyRefs2025_7.py): the relink session of the    *)
(* Maya reference relinker.  Strings are sequences of one-character        *)
(* strings; the host (maya.cmds) and the file system (os.path, os.walk)    *)
(* are the collaborators of relink_references.                             *)
(***************************************************************************)
EXTENDS Integers, Sequences, FiniteSets, TLC

\* ---------------------------------------------------------------- bounds
MaxLen == 5
MaxLog == 2

\* ------------------------------------------------------------ characters
NL == "\n"
Digits == {"2"}
NameChars == {"a", ".", "{", "2", "}", NL}

\* ------------------------------------------------ copy_suffix_pattern
\* {\d+} : an opening brace, one or more digits, a closing brace
IsDecoration(s) ==
    /\ Len(s) >= 3
    /\ s[1] = "{"
    /\ s[Len(s)] = "}"
    /\ \A i \in 2..(Len(s) - 1) : s[i] \in Digits

\* $ : the end of the string, or the position before one final line break
AtDollar(s) ==
    \/ IsDecoration(s)
    \/ /\ Len(s) >= 4
       /\ s[Len(s)] = NL
       /\ IsDecoration(SubSeq(s, 1, Len(s) - 1))

\* the pattern written (.*): an empty base would match
IsDotPlus_AllowEmpty(s) ==
    \A i \in 1..Len(s) : s[i] # NL

\* (.+) : one or more characters, none of them a line break
IsDotPlus(s) ==
    /\ Len(s) >= 1
    /\ \A i \in 1..Len(s) : s[i] # NL

\* copy_suffix_pattern.match(F): the lengths group(1) can have
MatchSplits(F) ==
    {i \in 0..Len(F) : /\ IsDotPlus(SubSeq(F, 1, i))
                       /\ AtDollar(SubSeq(F, i + 1, Len(F)))}

MaxOf(S) == CHOOSE m \in S : \A x \in S : x <= m

\* the match result ignored: the raw name is searched for
CleanName_Unstripped(F) == F

\* clean_file_name as relink_references computes it from file_name_raw
CleanName(F) ==
    IF MatchSplits(F) = {} THEN F
    ELSE SubSeq(F, 1, MaxOf(MatchSplits(F)))

\* ------------------------------------------------------------- strings
\* str.strip(): leading and trailing white space removed
Whitespace == {" ", NL}

RECURSIVE LStrip(_)
LStrip(s) ==
    IF s # <<>> /\ s[1] \in Whitespace THEN LStrip(Tail(s)) ELSE s

RECURSIVE RStrip(_)
RStrip(s) ==
    IF s # <<>> /\ s[Len(s)] \in Whitespace
    THEN RStrip(SubSeq(s, 1, Len(s) - 1)) ELSE s

\* .strip() forgotten
Strip_None(s) == s

Strip(s) == RStrip(LStrip(s))

\* convert_slashes(path, convert_to_forward)
convert_slashes(path, convert_to_forward) ==
    IF convert_to_forward
    THEN [i \in 1..Len(path) |-> IF path[i] = "\\" THEN "/" ELSE path[i]]
    ELSE path

\* os.path.basename / os.path.dirname (posixpath)
SlashPositions(p) == {i \in 1..Len(p) : p[i] = "/"}

Basename(p) ==
    IF SlashPositions(p) = {} THEN p
    ELSE SubSeq(p, MaxOf(SlashPositions(p)) + 1, Len(p))

Dirname(p) ==
    IF SlashPositions(p) = {} THEN <<>>
    ELSE IF MaxOf(SlashPositions(p)) = 1 THEN <<"/">>
    ELSE SubSeq(p, 1, MaxOf(SlashPositions(p)) - 1)

IsPrefix(s, t) == Len(s) <= Len(t) /\ SubSeq(t, 1, Len(s)) = s

\* --------------------------------------------------------- file system
\* /l and /l/s are directories, /l/s/a.m is a file, /l/b is a symbolic
\* link whose target is gone (listed by os.walk, not os.path.exists)
DirLib == <<"/", "l">>
DirSub == <<"/", "l", "/", "s">>
FileAsset == <<"/", "l", "/", "s", "/", "a", ".", "m">>
LinkB == <<"/", "l", "/", "b">>
Missing == <<"/", "x">>

Directories == {DirLib, DirSub}
Files == {FileAsset}
DeadLinks == {LinkB}

PathIsDir(p) == p \in Directories
PathExists(p) == p \in Directories \cup Files

\* find_file_in_directory(search_dir, file_name): os.walk is top-down, so
\* a match in a directory comes before the matches below that directory;
\* among the others the order is the file system's.  None is <<>>.
NoPath == <<>>

InTree(search_dir, d) == d = search_dir \/ IsPrefix(search_dir \o <<"/">>, d)

Matches(search_dir, file_name) ==
    {f \in Files \cup DeadLinks :
        /\ PathIsDir(search_dir)
        /\ InTree(search_dir, Dirname(f))
        /\ Basename(f) = file_name}

find_file_in_directory(search_dir, file_name) ==
    IF Matches(search_dir, file_name) = {} THEN {NoPath}
    ELSE {f \in Matches(search_dir, file_name) :
            \A g \in Matches(search_dir, file_name) :
                g = f \/ ~InTree(Dirname(g), Dirname(f))
                      \/ Dirname(g) = Dirname(f)}

\* ------------------------------------------------------------ the host
\* cmds.ls(type="reference"), in the host's order
SceneNodes == <<"ref1", "sharedReferenceNode", "ref2">>
IsShared(n) == n = "sharedReferenceNode"
RefNames == {"ref1", "ref2"}

\* what the host answers for one reference node: objExists, whether
\* referenceQuery answers at all (a node not associated with a reference
\* file makes it raise), isLoaded, and os.path.exists of its resolved file;
\* between two handlers the scene changes by RemoveReference only
Deleted == [exists |-> FALSE, assoc |-> FALSE, loaded |-> FALSE, onDisk |-> FALSE]
Unassociated == [exists |-> TRUE, assoc |-> FALSE, loaded |-> FALSE, onDisk |-> FALSE]
Associated == {[exists |-> TRUE, assoc |-> TRUE, loaded |-> l, onDisk |-> d] :
                 l \in BOOLEAN, d \in BOOLEAN}
RefStates == {Deleted, Unassociated} \cup Associated

\* referenceQuery(ref, filename=True, unresolvedName=True) answers
UnresolvedPaths ==
    { <<"/", "o", "/", "a", ".", "m", "{", "2", "}">>,
      <<"/", "o", "/", "a", "{", "2", "}", ".", "m">>,
      <<"/", "o", "/", "b", "{", "2", "}">> }

\* what the user may have typed in a text field when Relink is pressed
Inputs ==
    { <<>>, <<" ">>, <<" ", "/", "l">>, <<"\\", "l">>, FileAsset, Missing }

VARIABLES
    show_all_state,        \* show_all_state[0]
    use_single_path_state, \* use_single_path_state[0]
    relink_log,            \* the session log, oldest first
    original_paths,        \* keys of original_paths, in insertion order
    relinked_refs,
    host,                  \* RefNames -> RefStates
    ui,                    \* the controls populate_ui left in the window
    pathsWindow,           \* the text show_paths_popup put on screen
    pc,                    \* "idle", or the position in relink_references
    batch,                 \* locals of relink_references
    it,                    \* locals of the current loop iteration
    reloadCalls            \* cmds.file(..., loadReference=...) calls of the batch

session == <<show_all_state, use_single_path_state, relink_log,
             original_paths, relinked_refs>>
locals == <<pc, batch, it, reloadCalls>>
vars == <<show_all_state, use_single_path_state, relink_log, original_paths,
          relinked_refs, host, ui, pathsWindow, pc, batch, it, reloadCalls>>

\* all_refs = [ref for ref in cmds.ls(type="reference")
\*             if "sharedReferenceNode" not in ref]
all_refs(h) ==
    SelectSeq(SceneNodes, LAMBDA n : ~IsShared(n) /\ h[n].exists)

Range(q) == {q[i] : i \in 1..Len(q)}

\* a referenceQuery on some listed reference raises
QueryRaises(h) == \E n \in Range(all_refs(h)) : ~h[n].assoc

Reverse(q) == [i \in 1..Len(q) |-> q[Len(q) + 1 - i]]

\* ---------------------------------------------------------- populate_ui
NoWindow ==
    [window |-> FALSE, buttons |-> FALSE, close |-> FALSE,
     singlePathField |-> FALSE, mapping_dict |-> <<>>, showPaths |-> FALSE,
     relinkLogList |-> <<>>]

\* refs_to_display
refs_to_display(h, show_all) ==
    IF show_all THEN all_refs(h)
    ELSE SelectSeq(all_refs(h), LAMBDA n : ~h[n].loaded)

\* mapping_dict: a text field for every displayed reference that is not
\* loaded, in per-reference mode only
MappingOf(h, show_all, use_single) ==
    IF use_single THEN <<>>
    ELSE SelectSeq(refs_to_display(h, show_all), LAMBDA n : ~h[n].loaded)

\* relink_log appended without [::-1]
ShownLog_OldestFirst(log) == log

\* the log as the textScrollList shows it
ShownLog(log) == Reverse(log)

populate_ui(h, show_all, use_single, log) ==
    IF QueryRaises(h)
    THEN \* isLoaded raised: the layout stops after what was built so far
         [NoWindow EXCEPT !.window = TRUE,
                          !.singlePathField = show_all /\ use_single]
    ELSE IF refs_to_display(h, show_all) = <<>>
    THEN [NoWindow EXCEPT !.window = TRUE, !.close = TRUE]
    ELSE [window |-> TRUE, buttons |-> TRUE, close |-> FALSE,
          singlePathField |-> use_single,
          mapping_dict |-> MappingOf(h, show_all, use_single),
          showPaths |-> show_all,
          relinkLogList |-> ShownLog(log)]

\* ------------------------------------------------- locals when idle
NoBatch ==
    [refs |-> <<>>, i |-> 0, dir_only |-> FALSE, convert_to_forward |-> FALSE,
     text |-> <<>>, single_path |-> <<>>, per_ref |-> FALSE, success |-> <<>>, failed |-> <<>>]

NoIt ==
    [ref |-> "", text |-> <<>>, user_input |-> <<>>, file_name_raw |-> <<>>,
     clean_file_name |-> <<>>, new_path |-> <<>>, reload |-> "none",
     query |-> "none", is_now_loaded |-> FALSE, kind |-> "none"]

\* ---------------------------------------------------- relink_references
FailKinds == {"NotFound", "InvalidDirectory", "PathError",
              "VerificationFailed", "HostError", "TargetMissing"}
SkipKinds == {"gone", "empty"}

\* broken_refs = [ref for ref in cmds.ls(type="reference")
\*   if "sharedReferenceNode" not in ref
\*   and not os.path.exists(cmds.referenceQuery(ref, filename=True))]
broken_refs(h) == SelectSeq(all_refs(h), LAMBDA n : ~h[n].onDisk)

\* the objExists guard left out
StillExists_Unchecked(h, ref) == TRUE

\* if not cmds.objExists(ref): ... continue
StillExists(h, ref) == h[ref].exists

\* "if new_path:" without the os.path.exists test
CandidateOK_NoExistenceCheck(new_path) == new_path # NoPath

\* if new_path and os.path.exists(new_path):
CandidateOK(new_path) == new_path # NoPath /\ PathExists(new_path)

\* the reload trusted without looking at is_now_loaded
VerifyKind_Unverified(is_now_loaded) == "Success"

\* if is_now_loaded: ... else: "Verification failed ..."
VerifyKind(is_now_loaded) ==
    IF is_now_loaded THEN "Success" ELSE "VerificationFailed"

\* relinked_refs.add(ref) stands in the is_now_loaded branch only
AddsRelinked(kind) == kind = "Success"

\* the host after cmds.file(new_path, loadReference=ref) returned: ref is a
\* live reference, loaded or not, or one the host no longer answers
\* queries for; loading may remove other reference nodes or leave them
\* without a file
AfterReload(h, ref) ==
    {h2 \in [RefNames -> RefStates] :
        /\ h2[ref] \in Associated \cup {Unassociated}
        /\ \A o \in RefNames \ {ref} :
              \/ h2[o] = h[o]
              \/ h[o].exists /\ h2[o] \in {Deleted, Unassociated}}

\* one loop iteration ends: its outcome goes to success / failed and to
\* relink_log, and the loop moves on
Record(locs, h2, called) ==
    /\ it' = locs
    /\ batch' = [batch EXCEPT
          !.i = @ + 1,
          !.success = IF locs.kind = "Success" THEN Append(@, locs.ref) ELSE @,
          !.failed = IF locs.kind \in FailKinds
                     THEN Append(@, [ref |-> locs.ref, kind |-> locs.kind])
                     ELSE @]
    /\ relink_log' = IF locs.kind \in FailKinds \cup {"Success"}
                     THEN Append(relink_log, [ref |-> locs.ref, kind |-> locs.kind])
                     ELSE relink_log
    /\ relinked_refs' = IF AddsRelinked(locs.kind)
                        THEN relinked_refs \cup {locs.ref} ELSE relinked_refs
    /\ reloadCalls' = IF called
                      THEN Append(reloadCalls, [ref |-> locs.ref, path |-> locs.new_path])
                      ELSE reloadCalls
    /\ host' = h2
    /\ pc' = IF batch.i + 1 > Len(batch.refs) THEN "summary" ELSE "loop"
    /\ UNCHANGED <<show_all_state, use_single_path_state, original_paths,
                   ui, pathsWindow>>

\* an exception leaves the loop and the handler
Raise(locs) ==
    /\ it' = locs
    /\ pc' = "raised"
    /\ UNCHANGED <<session, host, ui, pathsWindow, batch, reloadCalls>>

\* lines 211-233 and 273-295: the existence check, then the try block with
\* the reload and the queries that verify it; a reload that raises leaves
\* the scene as it was
TryReload(locs) ==
    IF CandidateOK(locs.new_path)
    THEN \/ Record([locs EXCEPT !.reload = "raised", !.kind = "HostError"],
                   host, TRUE)
         \/ \E h2 \in AfterReload(host, locs.ref) :
               IF h2[locs.ref].assoc
               THEN Record([locs EXCEPT !.reload = "returned",
                                        !.query = "answered",
                                        !.is_now_loaded = h2[locs.ref].loaded,
                                        !.kind = VerifyKind(h2[locs.ref].loaded)],
                           h2, TRUE)
               ELSE Record([locs EXCEPT !.reload = "returned",
                                        !.query = "raised",
                                        !.kind = "HostError"],
                           h2, TRUE)
    ELSE Record([locs EXCEPT !.kind = "TargetMissing"], host, FALSE)

\* lines 195-208 and 252-265: the clean name and the directory search
SearchAndReload(locs, search_dir) ==
    \E original_path \in UnresolvedPaths :
      LET raw == Basename(original_path)
          named == [locs EXCEPT !.file_name_raw = raw,
                                !.clean_file_name = CleanName(raw)]
      IN \E found_path \in find_file_in_directory(search_dir, CleanName(raw)) :
            IF found_path # NoPath
            THEN TryReload([named EXCEPT !.new_path = found_path])
            ELSE Record([named EXCEPT !.kind = "NotFound"], host, FALSE)

\* lines 189-233, one pass of "for ref in broken_refs"
SinglePathBody(ref) ==
    LET locs == [NoIt EXCEPT !.ref = ref, !.user_input = batch.single_path]
    IN IF ~StillExists(host, ref)
       THEN Record([locs EXCEPT !.kind = "gone"], host, FALSE)
       ELSE IF batch.dir_only
       THEN IF ~host[ref].assoc
            THEN Raise(locs)
            ELSE SearchAndReload(locs, batch.single_path)
       ELSE TryReload([locs EXCEPT !.new_path = batch.single_path])

\* lines 235-295, one pass of "for ref, text_field in mapping_dict.items()"
PerReferenceBody(ref) ==
    \E text \in Inputs :
      LET stripped == Strip(text)
          user_input == convert_slashes(stripped, batch.convert_to_forward)
          locs == [NoIt EXCEPT !.ref = ref, !.text = text,
                               !.user_input = user_input]
      IN IF ~StillExists(host, ref)
         THEN Record([NoIt EXCEPT !.ref = ref, !.kind = "gone"], host, FALSE)
         ELSE IF stripped = <<>>
         THEN Record([NoIt EXCEPT !.ref = ref, !.text = text, !.kind = "empty"],
                     host, FALSE)
         ELSE IF batch.dir_only
         THEN IF ~PathIsDir(user_input)
              THEN Record([locs EXCEPT !.kind = "InvalidDirectory"], host, FALSE)
              ELSE IF ~host[ref].assoc
              THEN Record([locs EXCEPT !.kind = "PathError"], host, FALSE)
              ELSE SearchAndReload(locs, user_input)
         ELSE TryReload([locs EXCEPT !.new_path = user_input])

RelinkStep ==
    /\ pc = "loop"
    /\ IF batch.per_ref
       THEN PerReferenceBody(batch.refs[batch.i])
       ELSE SinglePathBody(batch.refs[batch.i])

\* lines 177-188: the Relink button; the check boxes and the shared text
\* field hold whatever the user left in them
RelinkStart ==
    /\ pc = "idle"
    /\ ui.buttons
    /\ Len(relink_log) + Len(IF use_single_path_state THEN broken_refs(host)
                              ELSE ui.mapping_dict) <= MaxLog
    /\ \E dir_only \in BOOLEAN, convert_to_forward \in BOOLEAN, text \in Inputs :
         LET b0 == [NoBatch EXCEPT !.dir_only = dir_only,
                                   !.convert_to_forward = convert_to_forward,
                                   !.per_ref = ~use_single_path_state,
                                   !.text = IF use_single_path_state
                                               /\ ui.singlePathField
                                               /\ ~QueryRaises(host)
                                            THEN text ELSE <<>>]
             single_path == convert_slashes(Strip(text), convert_to_forward)
         IN IF QueryRaises(host)
            THEN \* line 182 raises
                 /\ pc' = "raised"
                 /\ batch' = b0
            ELSE IF use_single_path_state
            THEN IF ui.singlePathField /\ Strip(text) # <<>>
                 THEN /\ batch' = [b0 EXCEPT !.refs = broken_refs(host), !.i = 1,
                                             !.single_path = single_path]
                      /\ pc' = IF broken_refs(host) = <<>> THEN "summary" ELSE "loop"
                 ELSE /\ batch' = b0
                      /\ pc' = "summary"
            ELSE /\ batch' = [b0 EXCEPT !.refs = ui.mapping_dict, !.i = 1]
                 /\ pc' = IF ui.mapping_dict = <<>> THEN "summary" ELSE "loop"
    /\ it' = NoIt
    /\ reloadCalls' = <<>>
    /\ UNCHANGED <<session, host, ui, pathsWindow>>

\* lines 297-308: the summary dialog, then populate_ui(window)
RelinkFinish ==
    /\ pc = "summary"
    /\ ui' = populate_ui(host, show_all_state, use_single_path_state, relink_log)
    /\ pc' = "idle"
    /\ batch' = NoBatch
    /\ it' = NoIt
    /\ reloadCalls' = <<>>
    /\ UNCHANGED <<session, host, pathsWindow>>

\* the exception reaches the host's script editor: no summary, no refresh
RelinkRaised ==
    /\ pc = "raised"
    /\ pc' = "idle"
    /\ batch' = NoBatch
    /\ it' = NoIt
    /\ reloadCalls' = <<>>
    /\ UNCHANGED <<session, host, ui, pathsWindow>>

\* ------------------------------------------------------- the other handlers
\* on_show_all_changed(val, window)
on_show_all_changed ==
    /\ pc = "idle"
    /\ ui.window
    /\ show_all_state' = ~show_all_state
    /\ ui' = populate_ui(host, ~show_all_state, use_single_path_state, relink_log)
    /\ UNCHANGED <<use_single_path_state, relink_log, original_paths,
                   relinked_refs, host, pathsWindow, locals>>

\* on_use_single_path_changed(val, window)
on_use_single_path_changed ==
    /\ pc = "idle"
    /\ ui.window
    /\ use_single_path_state' = ~use_single_path_state
    /\ ui' = populate_ui(host, show_all_state, ~use_single_path_state, relink_log)
    /\ UNCHANGED <<show_all_state, relink_log, original_paths,
                   relinked_refs, host, pathsWindow, locals>>

\* the Refresh button
Refresh ==
    /\ pc = "idle"
    /\ ui.buttons
    /\ ui' = populate_ui(host, show_all_state, use_single_path_state, relink_log)
    /\ UNCHANGED <<session, host, pathsWindow, locals>>

\* the Cancel and Close buttons: cmds.deleteUI("fixMyRefsWindow")
Cancel ==
    /\ pc = "idle"
    /\ ui.buttons \/ ui.close
    /\ ui' = NoWindow
    /\ UNCHANGED <<session, host, pathsWindow, locals>>

\* show_paths_popup(mapping_dict): one entry per key of original_paths
NoPaths == [open |-> FALSE, text |-> <<>>]

PathEntry(ref) ==
    IF ref \in relinked_refs
    THEN IF host[ref].exists THEN "old and current" ELSE "old and removed"
    ELSE "old"

show_paths_popup ==
    /\ pc = "idle"
    /\ ui.showPaths
    /\ IF \E ref \in Range(original_paths) :
             ref \in relinked_refs /\ host[ref].exists /\ ~host[ref].assoc
       THEN \* referenceQuery raises before the window is rebuilt
            pathsWindow' = pathsWindow
       ELSE pathsWindow' =
              [open |-> TRUE,
               text |-> [k \in 1..Len(original_paths) |-> PathEntry(original_paths[k])]]
    /\ UNCHANGED <<session, host, ui, locals>>

\* a reference node is removed from the scene while the window is open:
\* the case the "Reference node no longer exists" branch is written for
RemoveReference ==
    /\ pc = "idle"
    /\ \E ref \in RefNames :
          /\ host[ref].exists
          /\ host' = [host EXCEPT ![ref] = Deleted]
    /\ UNCHANGED <<session, ui, pathsWindow, locals>>

\* ------------------------------------------------------------------ Init
\* lines 20-24, then show_fixMyRefs_ui() at line 332 on the scene it finds
Init ==
    /\ show_all_state = FALSE
    /\ use_single_path_state = TRUE
    /\ relink_log = <<>>
    /\ relinked_refs = {}
    /\ host \in [RefNames -> RefStates]
    /\ original_paths = IF QueryRaises(host) THEN <<>> ELSE all_refs(host)
    /\ ui = IF QueryRaises(host) THEN NoWindow
            ELSE populate_ui(host, FALSE, TRUE, <<>>)
    /\ pathsWindow = NoPaths
    /\ pc = "idle"
    /\ batch = NoBatch
    /\ it = NoIt
    /\ reloadCalls = <<>>

Next ==
    \/ RelinkStart
    \/ RelinkStep
    \/ RelinkFinish
    \/ RelinkRaised
    \/ on_show_all_changed
    \/ on_use_single_path_changed
    \/ Refresh
    \/ Cancel
    \/ show_paths_popup
    \/ RemoveReference

Spec == Init /\ [][Next]_vars

\* ------------------------------------------- the clean name on its own
\* every file name of at most MaxLen characters, then lines 196-200
TypeName ==
    /\ pc = "name"
    /\ Len(it.file_name_raw) < MaxLen
    /\ \E c \in NameChars :
          it' = [it EXCEPT !.file_name_raw = Append(@, c)]
    /\ UNCHANGED <<session, host, ui, pathsWindow, pc, batch, reloadCalls>>

StripName ==
    /\ pc = "name"
    /\ it' = [it EXCEPT !.clean_file_name = CleanName(it.file_name_raw)]
    /\ pc' = "named"
    /\ UNCHANGED <<session, host, ui, pathsWindow, batch, reloadCalls>>

InitStrip ==
    /\ show_all_state = FALSE
    /\ use_single_path_state = TRUE
    /\ relink_log = <<>>
    /\ relinked_refs = {}
    /\ host = [n \in RefNames |-> Deleted]
    /\ original_paths = <<>>
    /\ ui = NoWindow
    /\ pathsWindow = NoPaths
    /\ pc = "name"
    /\ batch = NoBatch
    /\ it = NoIt
    /\ reloadCalls = <<>>

NextStrip == TypeName \/ StripName

SpecStrip == InitStrip /\ [][NextStrip]_vars

\* ====================================================== the properties
InBatch == pc \in {"loop", "summary"}

\* a step that is one complete pass of the loop of relink_references
IterationStep == pc = "loop" /\ batch'.i = batch.i + 1

OutcomeCount(b) == Len(b.success) + Len(b.failed)

CalledFor(ref) == \E k \in 1..Len(reloadCalls) : reloadCalls[k].ref = ref

HasOutcome(b, ref) ==
    \/ ref \in Range(b.success)
    \/ \E k \in 1..Len(b.failed) : b.failed[k].ref = ref

AllWhitespace(s) == \A i \in 1..Len(s) : s[i] \in Whitespace

\* C1: when the reload returns without a host error, Success is recorded
\* and the reference joins relinked_refs only if the isLoaded query that
\* follows answers true; if it answers false a "Verification failed"
\* failure and log line are recorded and relinked_refs is left alone.
\* relinked_refs changes in no other way.
C1_VerifiedBeforeRelinked ==
    [][ /\ (IterationStep /\ it'.reload = "returned" /\ it'.query = "answered") =>
              /\ it'.is_now_loaded = host'[it'.ref].loaded
              /\ IF it'.is_now_loaded
                 THEN /\ it'.kind = "Success"
                      /\ batch'.success = Append(batch.success, it'.ref)
                      /\ batch'.failed = batch.failed
                      /\ relink_log' = Append(relink_log,
                                         [ref |-> it'.ref, kind |-> "Success"])
                      /\ relinked_refs' = relinked_refs \cup {it'.ref}
                 ELSE /\ it'.kind = "VerificationFailed"
                      /\ batch'.success = batch.success
                      /\ batch'.failed = Append(batch.failed,
                            [ref |-> it'.ref, kind |-> "VerificationFailed"])
                      /\ relink_log' = Append(relink_log,
                            [ref |-> it'.ref, kind |-> "VerificationFailed"])
                      /\ relinked_refs' = relinked_refs
        /\ (relinked_refs' # relinked_refs) =>
              /\ IterationStep
              /\ it'.reload = "returned"
              /\ it'.query = "answered"
              /\ it'.is_now_loaded
              /\ host'[it'.ref].loaded
              /\ relinked_refs' = relinked_refs \cup {it'.ref}
      ]_vars

C1_Witness ==
    /\ InBatch
    /\ it.reload = "returned"
    /\ it.query = "answered"
    /\ ~it.is_now_loaded
    /\ it.kind = "VerificationFailed"
    /\ it.ref \notin relinked_refs
    /\ reloadCalls # <<>>

\* C2: no error on a reference aborts the batch: the handler never leaves
\* the loop by an exception.
C2_BatchNeverAborted == pc # "raised"

\* C3: when path resolution fails for a reference (nothing found, not a
\* directory, candidate not on disk) the reload is not called for it in
\* this batch, relinked_refs and the host are untouched by it, and exactly
\* one failure is recorded for it; a reload is only ever called for a
\* reference that has no outcome yet in the batch.
ResolutionFailed(l) ==
    /\ l.kind \notin SkipKinds \cup {"none", "PathError"}
    /\ ~PathExists(l.new_path)

C3_NoReloadAfterFailedResolution ==
    [][ /\ (IterationStep /\ ResolutionFailed(it')) =>
              /\ it'.reload = "none"
              /\ reloadCalls' = reloadCalls
              /\ ~CalledFor(it'.ref)
              /\ relinked_refs' = relinked_refs
              /\ host' = host
              /\ it'.kind \in {"NotFound", "InvalidDirectory", "TargetMissing"}
              /\ ~HasOutcome(batch, it'.ref)
              /\ batch'.failed = Append(batch.failed,
                                        [ref |-> it'.ref, kind |-> it'.kind])
              /\ batch'.success = batch.success
        /\ (pc = "loop" /\ reloadCalls' # reloadCalls) =>
              /\ ~HasOutcome(batch, it'.ref)
              /\ ~CalledFor(it'.ref)
      ]_vars

C3_Witness ==
    /\ InBatch
    /\ it.kind = "TargetMissing"
    /\ it.new_path = Missing
    /\ ~CalledFor(it.ref)
    /\ \E k \in 1..Len(batch.failed) : batch.failed[k].ref = it.ref

\* C4: a reference the host reports as loaded when the batch starts is
\* never in the list the batch iterates over.
C4_LoadedNeverCandidate ==
    (pc = "loop" /\ batch.i = 1) =>
        \A k \in 1..Len(batch.refs) : ~host[batch.refs[k]].loaded

\* C5 as stated: in shared-directory mode a name with the decoration
\* before its extension is searched for under the name without it.
LastDot(F) == MaxOf({0} \cup {i \in 1..Len(F) : F[i] = "."})

DecoratedBeforeExtension(F) ==
    /\ LastDot(F) > 1
    /\ \E i \in 2..(LastDot(F) - 1) : IsDecoration(SubSeq(F, i, LastDot(F) - 1))

Undecorated(F) ==
    LET i == CHOOSE i \in 2..(LastDot(F) - 1) :
                 IsDecoration(SubSeq(F, i, LastDot(F) - 1))
    IN SubSeq(F, 1, i - 1) \o SubSeq(F, LastDot(F), Len(F))

SharedDirectoryPass ==
    InBatch /\ ~batch.per_ref /\ batch.dir_only /\ it.file_name_raw # <<>>

C5_DecorationBeforeExtensionStripped ==
    (SharedDirectoryPass /\ DecoratedBeforeExtension(it.file_name_raw)) =>
        it.clean_file_name = Undecorated(it.file_name_raw)

\* C5 amended: in shared-directory mode the decoration is removed only
\* where it ends the file name (asset.ma{2} is searched as asset.ma,
\* asset{2}.ma as itself); when the tree of the shared directory holds a
\* file of the clean name, that file is the candidate, the reload is called
\* with exactly its path provided it exists on disk, and a reference the
\* host then reports loaded is a Success; otherwise the outcome is the
\* not-found failure and no reload is called.
EndsWithDecoration(F) ==
    \E i \in 1..(Len(F) - 3) : IsDecoration(SubSeq(F, i + 1, Len(F)))

WithoutEndDecoration(F) ==
    IF EndsWithDecoration(F)
    THEN SubSeq(F, 1, CHOOSE i \in 1..(Len(F) - 3) :
                          IsDecoration(SubSeq(F, i + 1, Len(F))))
    ELSE F

NamedUnder(dir, name) ==
    {f \in Files \cup DeadLinks :
        IsPrefix(dir \o <<"/">>, f) /\ Basename(f) = name}

C5_EndDecorationStripped ==
    SharedDirectoryPass =>
        /\ it.clean_file_name = WithoutEndDecoration(it.file_name_raw)
        /\ IF PathIsDir(batch.single_path)
              /\ NamedUnder(batch.single_path, it.clean_file_name) # {}
           THEN /\ it.new_path \in NamedUnder(batch.single_path, it.clean_file_name)
                /\ PathExists(it.new_path) =>
                      /\ it.reload # "none"
                      /\ reloadCalls[Len(reloadCalls)] =
                            [ref |-> it.ref, path |-> it.new_path]
                /\ (it.reload = "returned" /\ host[it.ref].loaded) =>
                      it.kind = "Success"
           ELSE /\ it.kind = "NotFound"
                /\ it.reload = "none"

C5_Witness ==
    /\ SharedDirectoryPass
    /\ it.file_name_raw = <<"a", ".", "m", "{", "2", "}">>
    /\ it.clean_file_name = <<"a", ".", "m">>
    /\ it.new_path = FileAsset
    /\ it.kind = "Success"

\* C6 as stated: every name base{digits}, the empty base included, has
\* the clean name base, and every other name is its own clean name.
HasDecorationForm(F) ==
    \E i \in 0..(Len(F) - 3) : IsDecoration(SubSeq(F, i + 1, Len(F)))

BaseOf(F) ==
    SubSeq(F, 1, CHOOSE i \in 0..(Len(F) - 3) :
                    IsDecoration(SubSeq(F, i + 1, Len(F))))

C6_EveryBaseStripped ==
    pc = "named" =>
        it.clean_file_name = IF HasDecorationForm(it.file_name_raw)
                             THEN BaseOf(it.file_name_raw)
                             ELSE it.file_name_raw

\* C6 amended: a name base{digits}, possibly followed by one final line
\* break, whose base is not empty and holds no line break, has the clean
\* name base; every other name, {digits} with the empty base included, is
\* its own clean name.
BeforeFinalBreak(F) ==
    IF F # <<>> /\ F[Len(F)] = NL THEN SubSeq(F, 1, Len(F) - 1) ELSE F

Strippable(F) ==
    /\ HasDecorationForm(BeforeFinalBreak(F))
    /\ BaseOf(BeforeFinalBreak(F)) # <<>>
    /\ NL \notin Range(BaseOf(BeforeFinalBreak(F)))

C6_NonEmptyBaseStripped ==
    pc = "named" =>
        it.clean_file_name = IF Strippable(it.file_name_raw)
                             THEN BaseOf(BeforeFinalBreak(it.file_name_raw))
                             ELSE it.file_name_raw

C6_Witness ==
    /\ pc = "named"
    /\ it.file_name_raw = <<"a", "{", "2", "2", "}">>
    /\ it.clean_file_name = <<"a">>

\* C7: relink_log is append-only and relinked_refs only grows, whatever
\* the handler; a pass of the loop appends one line per outcome it
\* records, for the reference it is at, and nothing else writes the log;
\* the list on screen is the log most recent first, as of the last time
\* the window was populated.
C7_LogAppendOnly ==
    [][ /\ IsPrefix(relink_log, relink_log')
        /\ relinked_refs \subseteq relinked_refs'
        /\ IF IterationStep
           THEN /\ Len(relink_log') - Len(relink_log)
                      = OutcomeCount(batch') - OutcomeCount(batch)
                /\ Len(relink_log') - Len(relink_log) \in {0, 1}
                /\ relink_log' # relink_log =>
                      relink_log'[Len(relink_log')] =
                          [ref |-> batch.refs[batch.i], kind |-> it'.kind]
           ELSE relink_log' = relink_log
        /\ ui'.relinkLogList =
              Reverse(SubSeq(relink_log', 1, Len(ui'.relinkLogList)))
        /\ (ui'.buttons /\ (pc = "summary"
                            \/ show_all_state' # show_all_state
                            \/ use_single_path_state' # use_single_path_state)) =>
              ui'.relinkLogList = Reverse(relink_log')
      ]_vars

C7_Witness ==
    /\ pc = "idle"
    /\ Len(relink_log) = 2
    /\ relink_log[1] # relink_log[2]
    /\ ui.relinkLogList = <<relink_log[2], relink_log[1]>>
    /\ relinked_refs # {}

\* C8: the reload is only ever requested with the path of a regular file.
C8_ReloadOnlyRegularFiles ==
    \A k \in 1..Len(reloadCalls) : reloadCalls[k].path \in Files

\* C9: a reference that no longer exists when the loop reaches it is
\* passed over: no outcome, no log line, no reload, nothing changed, and
\* the loop goes on to the next reference.
C9_GoneReferenceSkipped ==
    [][ (pc = "loop" /\ ~host[batch.refs[batch.i]].exists) =>
            /\ it'.ref = batch.refs[batch.i]
            /\ it'.kind = "gone"
            /\ it'.reload = "none"
            /\ relink_log' = relink_log
            /\ batch'.success = batch.success
            /\ batch'.failed = batch.failed
            /\ reloadCalls' = reloadCalls
            /\ relinked_refs' = relinked_refs
            /\ host' = host
            /\ batch'.i = batch.i + 1
            /\ pc' = IF batch.i < Len(batch.refs) THEN "loop" ELSE "summary"
      ]_vars

C9_Witness ==
    /\ pc = "loop"
    /\ it.kind = "gone"
    /\ ~host[it.ref].exists
    /\ batch.i = 2

\* C10: in per-reference mode an empty or blank text field passes the
\* reference over with no outcome, no log line and no reload while the
\* loop goes on; in single-path mode a blank or missing shared field makes
\* the batch skip the loop, and the rest of the handler records nothing.
C10_EmptyInputIsNoOp ==
    [][ /\ (IterationStep /\ batch.per_ref
              /\ host[batch.refs[batch.i]].exists /\ AllWhitespace(it'.text)) =>
              /\ it'.kind = "empty"
              /\ it'.reload = "none"
              /\ relink_log' = relink_log
              /\ batch'.success = batch.success
              /\ batch'.failed = batch.failed
              /\ reloadCalls' = reloadCalls
              /\ relinked_refs' = relinked_refs
              /\ host' = host
              /\ pc' = IF batch.i < Len(batch.refs) THEN "loop" ELSE "summary"
        /\ (pc = "idle" /\ pc' \in {"loop", "summary"} /\ use_single_path_state
              /\ (AllWhitespace(batch'.text) \/ ~ui.singlePathField)) =>
              /\ pc' = "summary"
              /\ batch'.success = <<>>
              /\ batch'.failed = <<>>
              /\ reloadCalls' = <<>>
              /\ UNCHANGED <<relink_log, relinked_refs, host>>
        /\ pc = "summary" => UNCHANGED <<relink_log, relinked_refs, host>>
      ]_vars

C10_Witness ==
    /\ pc = "loop"
    /\ batch.per_ref
    /\ it.kind = "empty"
    /\ it.text = <<" ">>
    /\ batch.i = 2

====
